---- MODULE Spec2Model ----
(***************************************************************************)
(* The four scripts of src/scripts: each parses a repository URL, walks    *)
(* the remote contents listing and ends in one terminal action             *)
(*   1_fetchRandomFile.py           fetch_random_file, save_file           *)
(*   2_fetchRandomFileLink.py       get_random_file_link                   *)
(*   3_fetchRandomFileFromSubDir.py get_random_file_link_from_subdir       *)
(*   4_csvLinks.py                  get_files_from_subdir                  *)
(*                                                                         *)
(* A Python string is a sequence of tokens: the token "/" is the slash,    *)
(* every other token is a run of characters holding no slash.              *)
(*                                                                         *)
(* The remote is a small directory tree.  It answers a listing request by  *)
(* the listing of the directory the URL names below its contents root,     *)
(* whatever the owner and repository in the URL, or by an error (network   *)
(* error, non-2xx status, a body that is not JSON), or by a listing one of *)
(* whose entries lacks its 'type' key.  A content request is answered by   *)
(* an error or by a text.  What the scripts print is left out, and so is   *)
(* the quoting of the CSV writer: a row is the pair of its two fields.     *)
(***************************************************************************)
EXTENDS Integers, Sequences, FiniteSets, TLC

VARIABLES
    flow,            \* which script runs
    repo_url,        \* the path component of the repo_url argument
    subdir_path,     \* the subdir_path argument (scripts 3 and 4)
    tree,            \* which remote repository answers
    budget,          \* failing listing responses the remote may still give
    pc,              \* position in the script
    username,        \* path_parts[0]
    repo_name,       \* path_parts[1]
    all_files,       \* the discovered files (items; rows in script 4)
    directories,     \* scripts 1, 2: directories of the current level
    new_directories, \* scripts 1, 2: directories found for the next level
    dir_i,           \* scripts 1, 2: position of the for loop in directories
    current_depth,   \* scripts 1, 2
    stack,           \* script 4: the frames of get_contents_recursive
    success,         \* script 4: what the outermost call returned
    random_file,     \* scripts 1-3: the item random.choice returned
    ret,             \* what the flow function returned (<<>>: not yet)
    requests,        \* every HTTP GET issued, in order
    fs,              \* every filesystem operation performed, in order
    found,           \* history: the file items appended to all_files
    failed,          \* history: the directories whose listing failed
    steps            \* history: the steps taken so far

vars == <<flow, repo_url, subdir_path, tree, budget, pc, username, repo_name,
          all_files, directories, new_directories, dir_i, current_depth,
          stack, success, random_file, ret, requests, fs, found, failed,
          steps>>

----------------------------------------------------------------------------
(* Bounds *)

MaxUrlLen == 4
TreeDepth == 3
MaxFailures == 2

----------------------------------------------------------------------------
(* Python values and string operations *)

Min(S) == CHOOSE x \in S : \A y \in S : x <= y
Max(S) == CHOOSE x \in S : \A y \in S : x >= y

None == [tag |-> "None", val |-> <<>>]
Str(s) == [tag |-> "str", val |-> s]
PyTrue == [tag |-> "bool", val |-> <<"True">>]
PyFalse == [tag |-> "bool", val |-> <<"False">>]

\* Python truthiness of a value used as a condition
Truthy(v) == IF v.tag = "bool" THEN v = PyTrue ELSE v.tag = "str" /\ v.val # <<>>

\* the path split without being stripped of its outer slashes
strip_Skipped(s) == s

\* s.strip('/')
strip(s) ==
    LET keep == {i \in 1..Len(s) : s[i] # "/"}
    IN  IF keep = {} THEN <<>> ELSE SubSeq(s, Min(keep), Max(keep))

\* s.split('/'): the pieces between the slashes, the empty ones included
split(s) ==
    LET at == {i \in 1..Len(s) : s[i] = "/"}
        n == Cardinality(at)
        cut(k) == IF k = 0 THEN 0
                  ELSE IF k = n + 1 THEN Len(s) + 1
                  ELSE CHOOSE i \in at : Cardinality({j \in at : j < i}) = k - 1
    IN  [k \in 1..(n + 1) |-> SubSeq(s, cut(k - 1) + 1, cut(k) - 1)]

\* path_parts = parsed_url.path.strip('/').split('/')
path_parts(url) == split(strip(url))

\* len(path_parts) < 2
InvalidUrl(parts) == Len(parts) < 2

----------------------------------------------------------------------------
(* The request URLs the scripts build *)

\* script 1: api_url, a literal that holds neither username nor repo_name
api_url_1 ==
    <<"https://github.com", "/", "krutikpatel", "/", "tech-revision-notes",
      "/", "tree", "/", "main", "/", "SpringFramework">>

\* script 2: f"https://api.github.com/repos/{username}/{repo_name}/contents"
api_url_2(user, repo) ==
    <<"https://api.github.com", "/", "repos", "/">> \o user \o <<"/">> \o repo
        \o <<"/", "contents">>

\* scripts 3, 4: f"https://api.github.com/repos/{username}/{repo_name}/contents/{path}"
api_url_3(user, repo, path) ==
    <<"https://api.github.com", "/", "repos", "/">> \o user \o <<"/">> \o repo
        \o <<"/", "contents", "/">> \o path

\* the api_url of the root listing request of the running script
api_url ==
    IF flow = "fetch_random_file" THEN api_url_1
    ELSE IF flow = "get_random_file_link" THEN api_url_2(username, repo_name)
    ELSE api_url_3(username, repo_name, subdir_path)

\* scripts 1, 2: dir_url = f"{api_url}/{directory}"
dir_url(directory) == api_url \o <<"/">> \o directory

\* script 4: articleName = f"{dir_path}/{item['name']}"
articleName(dir_path, item) == dir_path \o <<"/">> \o item.name

\* script 4: f"{dir_path}/{item['name']}" if dir_path else item['name']
subdirectory_path(dir_path, item) ==
    IF dir_path # <<>> THEN dir_path \o <<"/">> \o item.name ELSE item.name

\* os.path.join(output_dir, file_name), file_name being relative
os_path_join(output_dir, file_name) == output_dir \o <<"/">> \o file_name

----------------------------------------------------------------------------
(* The remote: the contents API as the scripts consume it.  A directory is *)
(* the sequence of its segments from the repository root.                  *)

NonEmpty(parts) == SelectSeq(parts, LAMBDA p : p # <<>>)

RECURSIVE Join(_)
Join(segs) ==
    IF segs = <<>> THEN <<>>
    ELSE IF Len(segs) = 1 THEN segs[1]
    ELSE segs[1] \o <<"/">> \o Join(Tail(segs))

\* the directory a listing URL names: what follows the contents root
RootMarkers == {"contents", "SpringFramework"}
Resolve(url) ==
    LET m == Max({i \in 1..Len(url) : url[i] \in RootMarkers})
    IN  NonEmpty(split(SubSeq(url, m + 1, Len(url))))

Trees == {"full", "deep"}

\* the subdirectories of directory p, in listing order
ChildDirs(p) ==
    IF Len(p) >= TreeDepth THEN <<>>
    ELSE IF p = <<>> THEN << <<"a">>, <<"b">> >>
    ELSE << <<"a">> >>

\* tree "full" holds files in every directory, tree "deep" in its leaves only
HasFiles(t, p) == t = "full" \/ Len(p) = TreeDepth

Entry(p, name, type) ==
    LET path == Join(Append(p, name))
    IN  [type |-> type, name |-> name, path |-> path,
         html_url |-> <<"https://github.com/blob/">> \o path,
         download_url |-> <<"https://raw/">> \o path]

\* the JSON array a successful listing of directory p returns
Listing(t, p) ==
    LET files(n) == IF HasFiles(t, p) THEN <<Entry(p, <<n>>, "file")>> ELSE <<>>
        dirs == [i \in 1..Len(ChildDirs(p)) |-> Entry(p, ChildDirs(p)[i], "dir")]
    IN  files("f") \o dirs \o files("g")

\* a listing whose k-th entry lacks its 'type' key
Malformed(body, k) ==
    [i \in 1..Len(body) |->
        IF i = k THEN [f \in DOMAIN body[i] \ {"type"} |-> body[i][f]]
        ELSE body[i]]

\* what requests.get(...), raise_for_status() and json() may yield for p
Responses(t, p, left) ==
    {[status |-> "ok", body |-> Listing(t, p)]}
    \cup (IF left > 0
          THEN {[status |-> "error", body |-> <<>>]}
               \cup {[status |-> "ok", body |-> Malformed(Listing(t, p), k)] :
                        k \in 1..Len(Listing(t, p))}
          ELSE {})

\* the position of the first entry whose item['type'] raises KeyError
FirstBad(body) ==
    LET bad == {i \in 1..Len(body) : "type" \notin DOMAIN body[i]}
    IN  IF bad = {} THEN Len(body) + 1 ELSE Min(bad)

\* the listing call raises: the request, the status, the JSON or an entry
Raises(resp) == resp.status = "error" \/ FirstBad(resp.body) <= Len(resp.body)

\* the entries the for loop handles before it ends or raises
Handled(resp) ==
    IF resp.status = "error" THEN <<>>
    ELSE SubSeq(resp.body, 1, FirstBad(resp.body) - 1)

\* the text a content request may return
Contents == {<<>>, <<"x">>}

----------------------------------------------------------------------------
(* Classifying the entries of a listing *)

\* item['type'] == 'file'
IsFileEntry(item) == item.type = "file"

\* the directory test against a type the API never sends
IsDirEntry_WrongType(item) == item.type = "directory"

\* item['type'] == 'dir'
IsDirEntry(item) == item.type = "dir"

FilesOf(items) == SelectSeq(items, IsFileEntry)
DirPathsOf(items) ==
    LET ds == SelectSeq(items, IsDirEntry)
    IN  [i \in 1..Len(ds) |-> ds[i].path]

----------------------------------------------------------------------------
(* Inputs and the initial state *)

Flows == {"fetch_random_file", "get_random_file_link",
          "get_random_file_link_from_subdir", "get_files_from_subdir"}

Descends == {"fetch_random_file", "get_random_file_link", "get_files_from_subdir"}
Bounded == {"fetch_random_file", "get_random_file_link"}
TakesSubdir == {"get_random_file_link_from_subdir", "get_files_from_subdir"}

\* the path components of the repository URLs the walks are run with
WalkUrls == { <<"/", "alice", "/", "proj">>,
              <<"/", "bob", "/", "proj", "/", "tree", "/", "main">>,
              <<"/", "alice">> }

\* every path component of at most MaxUrlLen tokens
UrlTokens == {"/", "alice", "proj"}
UrlPaths == UNION {[1..n -> UrlTokens] : n \in 0..MaxUrlLen}

SubdirPaths == {<<>>, <<"a">>}

\* scripts 1, 2: max_depth = 2
max_depth == 2

\* script 1: save_file(file_name, file_content, "downloaded_files")
output_dir == <<"downloaded_files">>

\* script 4: output_csv = "github_files.csv"
output_csv == <<"github_files.csv">>

NoItem == [type |-> "none", name |-> <<>>, path |-> <<>>, html_url |-> <<>>,
           download_url |-> <<>>]

InitLocals ==
    /\ subdir_path \in (IF flow \in TakesSubdir THEN SubdirPaths ELSE {<<>>})
    /\ pc = "start"
    /\ username = <<>>
    /\ repo_name = <<>>
    /\ all_files = <<>>
    /\ directories = <<>>
    /\ new_directories = <<>>
    /\ dir_i = 1
    /\ current_depth = 0
    /\ stack = <<>>
    /\ success = PyFalse
    /\ random_file = NoItem
    /\ ret = <<>>
    /\ requests = <<>>
    /\ fs = <<>>
    /\ found = <<>>
    /\ failed = {}
    /\ steps = 0

\* the walks: few URLs, both trees, listings that may fail
Init ==
    /\ flow \in Flows
    /\ repo_url \in WalkUrls
    /\ tree \in Trees
    /\ budget = MaxFailures
    /\ InitLocals

\* the URL parser: every short URL path, a remote that does not fail
InitUrl ==
    /\ flow \in Flows
    /\ repo_url \in UrlPaths
    /\ tree = "full"
    /\ budget = 0
    /\ InitLocals

----------------------------------------------------------------------------
(* The steps of the scripts *)

\* the failure sentinel of the running flow
Sentinel ==
    IF flow = "fetch_random_file" THEN <<None, None>>
    ELSE IF flow = "get_files_from_subdir" THEN <<PyFalse>>
    ELSE <<None>>

\* where control goes when the flow function returns: script 1's entry point
\* goes on to test the pair it got, the others only print
ReturnPc == IF flow = "fetch_random_file" THEN "main" ELSE "done"

\* the depth test off by one: current_depth <= max_depth
WhileCond_OffByOne(dirs, depth) == dirs # <<>> /\ depth <= max_depth

\* while directories and current_depth < max_depth
WhileCond(dirs, depth) == dirs # <<>> /\ depth < max_depth

\* the empty test as "all_files is None", which no list satisfies
NoFiles_IsNone(files) == FALSE

\* if not all_files
NoFiles(files) == files = <<>>

Frame(dir_path) == [dir_path |-> dir_path, listed |-> FALSE, contents |-> <<>>, i |-> 1]

Get(kind, url) == [kind |-> kind, url |-> url]

\* the URL parser: the first lines of each flow function
ParseRepoUrl ==
    /\ pc = "start"
    /\ steps' = steps + 1
    /\ LET parts == path_parts(repo_url)
       IN  IF InvalidUrl(parts)
           THEN /\ ret' = Sentinel
                /\ pc' = ReturnPc
                /\ UNCHANGED <<username, repo_name, stack>>
           ELSE /\ username' = parts[1]
                /\ repo_name' = parts[2]
                /\ pc' = IF flow = "get_files_from_subdir" THEN "recurse" ELSE "root"
                /\ stack' = IF flow = "get_files_from_subdir"
                            THEN <<Frame(subdir_path)>> ELSE stack
                /\ UNCHANGED ret
    /\ UNCHANGED <<flow, repo_url, subdir_path, tree, budget, all_files,
                   directories, new_directories, dir_i, current_depth, success,
                   random_file, requests, fs, found, failed>>

\* scripts 1-3: the root listing request and the loop over its entries, inside
\* the function's outer try
RootListing ==
    /\ pc = "root"
    /\ steps' = steps + 1
    /\ \E resp \in Responses(tree, Resolve(api_url), budget) :
         LET items == Handled(resp)
             dirs == IF flow = "get_random_file_link_from_subdir"
                     THEN <<>> ELSE DirPathsOf(items)
         IN  /\ requests' = Append(requests, Get("listing", api_url))
             /\ budget' = IF Raises(resp) THEN budget - 1 ELSE budget
             /\ failed' = IF Raises(resp) THEN failed \cup {Resolve(api_url)} ELSE failed
             /\ all_files' = FilesOf(items)
             /\ found' = found \o FilesOf(items)
             /\ directories' = dirs
             /\ IF Raises(resp)
                THEN /\ ret' = Sentinel
                     /\ pc' = ReturnPc
                ELSE /\ UNCHANGED ret
                     /\ pc' = IF flow # "get_random_file_link_from_subdir"
                                 /\ WhileCond(dirs, 0)
                              THEN "loop" ELSE "select"
    /\ UNCHANGED <<flow, repo_url, subdir_path, tree, username, repo_name,
                   new_directories, dir_i, current_depth, stack, success,
                   random_file, fs>>

\* scripts 1, 2: one pass of the for loop of the while loop, with its own try;
\* the pass over the last directory of a level also ends the level
DirListing ==
    /\ pc = "loop"
    /\ steps' = steps + 1
    /\ LET directory == directories[dir_i]
           url == dir_url(directory)
       IN  \E resp \in Responses(tree, Resolve(url), budget) :
             LET items == Handled(resp)
                 nd == new_directories \o DirPathsOf(items)
             IN  /\ requests' = Append(requests, Get("listing", url))
                 /\ budget' = IF Raises(resp) THEN budget - 1 ELSE budget
                 /\ failed' = IF Raises(resp) THEN failed \cup {Resolve(url)} ELSE failed
                 /\ all_files' = all_files \o FilesOf(items)
                 /\ found' = found \o FilesOf(items)
                 /\ IF dir_i = Len(directories)
                    THEN /\ directories' = nd
                         /\ new_directories' = <<>>
                         /\ dir_i' = 1
                         /\ current_depth' = current_depth + 1
                         /\ pc' = IF WhileCond(nd, current_depth + 1)
                                  THEN "loop" ELSE "select"
                    ELSE /\ new_directories' = nd
                         /\ dir_i' = dir_i + 1
                         /\ UNCHANGED <<directories, current_depth, pc>>
    /\ UNCHANGED <<flow, repo_url, subdir_path, tree, username, repo_name,
                   stack, success, random_file, ret, fs>>

\* scripts 1-3: the empty check and random.choice(all_files); scripts 2, 3
\* return the chosen file's html_url
SelectRandomFile ==
    /\ pc = "select"
    /\ steps' = steps + 1
    /\ IF NoFiles(all_files)
       THEN /\ ret' = Sentinel
            /\ pc' = ReturnPc
            /\ UNCHANGED random_file
       ELSE \E i \in 1..Len(all_files) :
              /\ random_file' = all_files[i]
              /\ IF flow = "fetch_random_file"
                 THEN /\ pc' = "fetch"
                      /\ UNCHANGED ret
                 ELSE /\ ret' = <<Str(all_files[i].html_url)>>
                      /\ pc' = "done"
    /\ UNCHANGED <<flow, repo_url, subdir_path, tree, budget, username,
                   repo_name, all_files, directories, new_directories, dir_i,
                   current_depth, stack, success, requests, fs, found, failed>>

\* script 1: the content request of the chosen file
FetchContent ==
    /\ pc = "fetch"
    /\ steps' = steps + 1
    /\ \E r \in {[status |-> "error", text |-> <<>>]}
                \cup {[status |-> "ok", text |-> c] : c \in Contents} :
         /\ requests' = Append(requests, Get("content", random_file.download_url))
         /\ ret' = IF r.status = "error" THEN <<None, None>>
                   ELSE <<Str(random_file.name), Str(r.text)>>
         /\ pc' = "main"
    /\ UNCHANGED <<flow, repo_url, subdir_path, tree, budget, username,
                   repo_name, all_files, directories, new_directories, dir_i,
                   current_depth, stack, success, random_file, fs, found, failed>>

\* script 1: os.makedirs(output_dir, exist_ok=True), then open, write
save_file(file_name, file_content, dir) ==
    << [op |-> "makedirs", path |-> dir],
       [op |-> "write", path |-> os_path_join(dir, file_name),
        content |-> file_content] >>

\* script 1: if file_name and file_content
GotFile(file_name, file_content) == Truthy(file_name) /\ Truthy(file_content)

\* script 1: the entry point, after fetch_random_file returned
Main ==
    /\ pc = "main"
    /\ steps' = steps + 1
    /\ fs' = IF GotFile(ret[1], ret[2])
             THEN fs \o save_file(ret[1].val, ret[2].val, output_dir)
             ELSE fs
    /\ pc' = "done"
    /\ UNCHANGED <<flow, repo_url, subdir_path, tree, budget, username,
                   repo_name, all_files, directories, new_directories, dir_i,
                   current_depth, stack, success, random_file, ret, requests,
                   found, failed>>

\* script 4: the innermost running call of get_contents_recursive
Top == stack[Len(stack)]

\* the innermost frame moved past the entry it just handled
Advanced == [stack EXCEPT ![Len(stack)].i = Top.i + 1]

\* script 4: get_contents_recursive returns; the outermost call's value is
\* assigned to success
ReturnFrom(value) ==
    /\ stack' = SubSeq(stack, 1, Len(stack) - 1)
    /\ IF Len(stack) = 1
       THEN /\ success' = value
            /\ pc' = "write"
       ELSE UNCHANGED <<success, pc>>

\* script 4: the listing request of get_contents_recursive(dir_path); a
\* request, status or JSON error is caught by the call's own except
GetContents ==
    /\ pc = "recurse"
    /\ steps' = steps + 1
    /\ ~Top.listed
    /\ LET url == api_url_3(username, repo_name, Top.dir_path)
       IN  \E resp \in Responses(tree, Resolve(url), budget) :
             /\ requests' = Append(requests, Get("listing", url))
             /\ budget' = IF Raises(resp) THEN budget - 1 ELSE budget
             /\ failed' = IF Raises(resp) THEN failed \cup {Resolve(url)} ELSE failed
             /\ IF resp.status = "error"
                THEN ReturnFrom(PyFalse)
                ELSE /\ stack' = [stack EXCEPT ![Len(stack)].listed = TRUE,
                                               ![Len(stack)].contents = resp.body]
                     /\ UNCHANGED <<success, pc>>
    /\ UNCHANGED <<flow, repo_url, subdir_path, tree, username, repo_name,
                   all_files, directories, new_directories, dir_i,
                   current_depth, random_file, ret, fs, found>>

\* script 4: one pass of "for item in contents": a file is appended, a
\* directory is descended into, an entry with no 'type' raises KeyError,
\* which the call's except turns into return False
ProcessItem ==
    /\ pc = "recurse"
    /\ steps' = steps + 1
    /\ Top.listed
    /\ Top.i <= Len(Top.contents)
    /\ LET item == Top.contents[Top.i]
       IN  IF "type" \notin DOMAIN item
           THEN /\ ReturnFrom(PyFalse)
                /\ UNCHANGED <<all_files, found>>
           ELSE IF IsFileEntry(item)
           THEN /\ all_files' = Append(all_files,
                        [articleName |-> articleName(Top.dir_path, item),
                         articleUrl |-> item.html_url])
                /\ found' = Append(found, item)
                /\ stack' = Advanced
                /\ UNCHANGED <<success, pc>>
           ELSE IF IsDirEntry(item)
           THEN /\ stack' = Append(Advanced,
                                   Frame(subdirectory_path(Top.dir_path, item)))
                /\ UNCHANGED <<all_files, found, success, pc>>
           ELSE /\ stack' = Advanced
                /\ UNCHANGED <<all_files, found, success, pc>>
    /\ UNCHANGED <<flow, repo_url, subdir_path, tree, budget, username,
                   repo_name, directories, new_directories, dir_i,
                   current_depth, random_file, ret, requests, fs, failed>>

\* script 4: the for loop ended: return True
ReturnContents ==
    /\ pc = "recurse"
    /\ steps' = steps + 1
    /\ Top.listed
    /\ Top.i > Len(Top.contents)
    /\ ReturnFrom(PyTrue)
    /\ UNCHANGED <<flow, repo_url, subdir_path, tree, budget, username,
                   repo_name, all_files, directories, new_directories, dir_i,
                   current_depth, random_file, ret, requests, fs, found, failed>>

\* script 4: csv.DictWriter: the header, then one row per file, the fields
\* in fieldnames order
csv_rows(files) ==
    << << <<"articleName">>, <<"articleUrl">> >> >>
        \o [i \in 1..Len(files) |-> <<files[i].articleName, files[i].articleUrl>>]

\* script 4: the empty check and the CSV writer
WriteCsv ==
    /\ pc = "write"
    /\ steps' = steps + 1
    /\ IF NoFiles(all_files)
       THEN /\ ret' = <<PyFalse>>
            /\ UNCHANGED fs
       ELSE /\ fs' = Append(fs, [op |-> "write", path |-> output_csv,
                                 rows |-> csv_rows(all_files)])
            /\ ret' = <<PyTrue>>
    /\ pc' = "done"
    /\ UNCHANGED <<flow, repo_url, subdir_path, tree, budget, username,
                   repo_name, all_files, directories, new_directories, dir_i,
                   current_depth, stack, success, random_file, requests, found,
                   failed>>

Next ==
    \/ ParseRepoUrl
    \/ RootListing
    \/ DirListing
    \/ SelectRandomFile
    \/ FetchContent
    \/ Main
    \/ GetContents
    \/ ProcessItem
    \/ ReturnContents
    \/ WriteCsv

Spec == Init /\ [][Next]_vars

SpecUrl == InitUrl /\ [][Next]_vars

----------------------------------------------------------------------------
(* What the claims speak of *)

\* the non-empty segments of a path, in order
Segments(path) == NonEmpty(split(path))

\* the directory the walk starts from
StartDir == IF flow \in TakesSubdir THEN Segments(subdir_path) ELSE <<>>

IsPrefix(a, b) == Len(a) <= Len(b) /\ SubSeq(b, 1, Len(a)) = a

\* the directories of the remote tree from p down, p included
RECURSIVE SubtreeDirs(_)
SubtreeDirs(p) ==
    {p} \cup UNION {SubtreeDirs(Append(p, ChildDirs(p)[i])) : i \in 1..Len(ChildDirs(p))}

\* the paths of the files directory p holds
FilePathsIn(p) == {Listing(tree, p)[i].path : i \in
                     {j \in 1..Len(Listing(tree, p)) : Listing(tree, p)[j].type = "file"}}

FilePathsUnder(dirs) == UNION {FilePathsIn(p) : p \in dirs}

ListingRequests == SelectSeq(requests, LAMBDA r : r.kind = "listing")

\* the directory each listing request was addressed to, in order
ListedDirs == [i \in 1..Len(ListingRequests) |-> Resolve(ListingRequests[i].url)]

NoDuplicates(seq) == \A i, j \in 1..Len(seq) : seq[i] = seq[j] => i = j

FoundPaths == {found[i].path : i \in 1..Len(found)}

\* the walk of the running flow is over
WalkOver ==
    IF flow = "get_files_from_subdir" THEN pc \in {"write", "done"}
    ELSE pc \in {"select", "fetch", "main", "done"}

\* the directories that stay reachable when the failing ones are taken out of
\* the tree: under the start, within the flow's depth, no failing directory
\* on the way from the start
LiveDirs ==
    {d \in SubtreeDirs(StartDir) :
        /\ flow \in Bounded => Len(d) - Len(StartDir) <= 2
        /\ \A n \in Len(StartDir)..Len(d) : SubSeq(d, 1, n) \notin failed}

----------------------------------------------------------------------------
(* The claims *)

\* C1: in the flows that descend, when the listing of a directory other than
\* the start fails, the walk ends with exactly the files of the directories
\* still reachable without the failing ones: a failing directory contributes
\* no file and stops neither its siblings nor its ancestors.
C1_FailureIsolated ==
    (flow \in Descends /\ WalkOver /\ requests # <<>> /\ StartDir \notin failed)
        => (FoundPaths = FilePathsUnder(LiveDirs)
            /\ Len(found) = Cardinality(FilePathsUnder(LiveDirs)))

\* C2: in every flow, when the root listing request fails the flow returns
\* its failure sentinel, selects no file and writes nothing.
C2_RootFailureAborts ==
    (pc = "done" /\ StartDir \in failed)
        => (ret = Sentinel /\ random_file = NoItem /\ fs = <<>>)

\* C3: the export flow writes, after the header, one row per discovered file
\* in discovery order, articleName being the file's slash-joined path from
\* the repository root (no leading slash, no empty segment) and articleUrl
\* its html_url, for every starting path, the empty one included.
C3_CsvRows ==
    (flow = "get_files_from_subdir" /\ pc = "done" /\ ret = <<PyTrue>>)
        => (Len(fs) = 1
            /\ Tail(fs[1].rows) =
                 [i \in 1..Len(found) |-> <<found[i].path, found[i].html_url>>]
            /\ \A i \in 1..Len(found) :
                 Join(Segments(all_files[i].articleName)) = all_files[i].articleName)

\* C4: in the save flow, whenever a file was selected and its content was
\* fetched, output_dir/name is written with exactly the fetched text, the
\* empty text included.
C4_SavedContent ==
    (flow = "fetch_random_file" /\ pc = "done" /\ ret[1] # None)
        => \E i \in 1..Len(fs) :
              fs[i] = [op |-> "write",
                       path |-> output_dir \o <<"/">> \o random_file.name,
                       content |-> ret[2].val]

\* C5: in every flow the root listing request is addressed to
\* <api-root>/repos/{owner}/{repo}/contents/{path}, owner and repo being the
\* values parsed from repo_url.
C5_RootRequestUrl ==
    requests # <<>>
        => IsPrefix(<<"https://api.github.com", "/", "repos", "/">>
                        \o username \o <<"/">> \o repo_name \o <<"/", "contents">>,
                    requests[1].url)

\* C6: in every flow, a repo_url whose path has fewer than two segments makes
\* the flow return its failure sentinel with no request issued and nothing
\* written.
C6_ShortUrlRejected ==
    (pc # "start" /\ Len(Segments(repo_url)) < 2)
        => (ret = Sentinel /\ requests = <<>> /\ fs = <<>>)

C6_Witness ==
    pc = "done" /\ Len(Segments(repo_url)) = 1 /\ Len(repo_url) > 1

\* C7: for every repo_url whose path has at least two non-empty segments,
\* empty segments between them or not, the parser yields the first non-empty
\* segment as owner and the second as repository name.
C7_OwnerAndRepo ==
    (pc # "start" /\ Len(Segments(repo_url)) >= 2)
        => (username = Segments(repo_url)[1] /\ repo_name = Segments(repo_url)[2])

\* C8: whenever the discovered-files collection is empty after the walk, the
\* flow returns its failure sentinel and nothing is written: no save_file,
\* no CSV.
C8_EmptyNoWrite ==
    (pc = "done" /\ all_files = <<>>) => (ret = Sentinel /\ fs = <<>>)

C8_Witness ==
    /\ pc = "done"
    /\ all_files = <<>>
    /\ failed = {}
    /\ Len(requests) > 1

\* C9: in the depth-bounded flows every listing request is addressed to the
\* start directory or to a directory at most 2 levels below it, and when no
\* listing fails the discovered files are exactly the files of the
\* directories at most 2 levels below the start.
C9_DepthCap ==
    flow \in Bounded
        => /\ \A i \in 1..Len(ListedDirs) : Len(ListedDirs[i]) - Len(StartDir) <= 2
           /\ (WalkOver /\ requests # <<>> /\ failed = {})
                => LET near == {d \in SubtreeDirs(StartDir) :
                                   Len(d) - Len(StartDir) <= 2}
                   IN  /\ {all_files[i].path : i \in 1..Len(all_files)}
                            = FilePathsUnder(near)
                       /\ Len(all_files) = Cardinality(FilePathsUnder(near))

\* directories of the third level were found and the walk ended without
\* listing them
C9_Witness ==
    /\ flow \in Bounded
    /\ pc = "done"
    /\ failed = {}
    /\ current_depth = 2
    /\ directories # <<>>
    /\ all_files # <<>>

\* the export walk listed every directory from the start down once, and
\* collected every file of them once
ExactWalk ==
    /\ NoDuplicates(ListedDirs)
    /\ {ListedDirs[i] : i \in 1..Len(ListedDirs)} = SubtreeDirs(StartDir)
    /\ NoDuplicates(found)
    /\ FoundPaths = FilePathsUnder(SubtreeDirs(StartDir))
    /\ Len(all_files) = Len(found)
    /\ NoDuplicates(all_files)

\* the sum of the values of function w over the set S
RECURSIVE Sum(_, _)
Sum(S, w) ==
    IF S = {} THEN 0
    ELSE LET x == CHOOSE y \in S : TRUE IN w[x] + Sum(S \ {x}, w)

\* the steps the export walk spends on a directory not listed yet: its
\* request, one pass per entry, its return
DirSteps(d) == Len(Listing(tree, d)) + 3

\* the steps a listed call still has before it: its remaining entries and
\* its return
FrameSteps(f) == IF f.listed THEN Len(f.contents) - f.i + 2 ELSE 0

\* the steps the export flow may take at most: a request, a pass per entry
\* and a return for every directory from the start down, and three more
StepBound ==
    3 + Sum(SubtreeDirs(StartDir), [d \in SubtreeDirs(StartDir) |-> DirSteps(d)])

\* an upper bound of the steps the export flow still has before it
Rank ==
    LET unlisted == SubtreeDirs(StartDir) \ {ListedDirs[i] : i \in 1..Len(ListedDirs)}
    IN  IF pc = "done" THEN 0
        ELSE IF pc = "write" THEN 1
        ELSE IF pc = "start" THEN StepBound
        ELSE 2 + Sum(unlisted, [d \in unlisted |-> DirSteps(d)])
               + Sum(1..Len(stack), [k \in 1..Len(stack) |-> FrameSteps(stack[k])])

\* C10: the export flow, over the finite tree, terminates: the steps taken
\* and the steps left never exceed the bound the tree gives, and a step is
\* possible until the flow is done.  No directory is listed twice, and when
\* no listing failed the flow has issued exactly one listing request per
\* directory reachable from the start and collected exactly one row per file
\* of that tree.
C10_ExportWalk ==
    flow = "get_files_from_subdir"
        => /\ pc \in {"start", "recurse", "write", "done"}
           /\ pc = "recurse"
                => (stack # <<>> /\ (Top.listed => Top.i <= Len(Top.contents) + 1))
           /\ Rank >= 0
           /\ steps + Rank <= StepBound
           /\ NoDuplicates(ListedDirs)
           /\ (pc \in {"write", "done"} /\ requests # <<>> /\ failed = {}) => ExactWalk

C10_Witness ==
    /\ flow = "get_files_from_subdir"
    /\ pc = "done"
    /\ failed = {}
    /\ Len(requests) > TreeDepth
    /\ Len(all_files) > 1

====
